---- MODULE Spec2Model ----
(***************************************************************************)
(* deepmerge.py: merge of several source directory trees into one          *)
(* destination tree.  A file name is the base name "f" followed by zero or *)
(* more "--<timestamp>" suffixes, written here as the sequence of its      *)
(* stamps: << >> is "f", <<0>> is "f--<second 0>".  A path is a directory  *)
(* ("." for the root of a tree, or a sub-directory name) and a file name.  *)
(***************************************************************************)
EXTENDS Integers, Sequences, FiniteSets, TLC

\* ---------------------------------------------------------------- bounds
NumRoots == 2        \* number of source roots on the command line
MaxTime == 2         \* modification times are 0..MaxTime (sub-second ticks)
NumContents == 3     \* distinct file contents
MaxSrcFiles == 2     \* files in all source roots together, initially
MaxDstFiles == 1     \* files in the destination tree, initially
TicksPerSecond == 2  \* st_mtime is finer than the one-second stamp of ts_str

Roots == 1..NumRoots
Times == 0..MaxTime
Contents == 1..NumContents
SubDirs == {"d"}
AllDirs == {"."} \cup SubDirs

\* ------------------------------------------------------------ file system
NoFile == [content |-> 0, mtime |-> 0]
File == [content : Contents, mtime : Times]

\* datetime.fromtimestamp(t).strftime(...): the stamp has one-second
\* resolution, so the ticks of one second share a stamp.
ts_str(timestamp) == timestamp \div TicksPerSecond

Stamps == {ts_str(t) : t \in Times}

\* hashlib.md5(bytes).hexdigest(): equal contents, equal digests.
md5(bytes) == <<"md5", bytes>>

Names0 == {<< >>}
Names1 == Names0 \cup {<<s>> : s \in Stamps}
Names2 == Names1 \cup {<<s, t>> : s \in Stamps, t \in Stamps}

\* Paths the walk can reach: a source name carries at most one stamp and a
\* reconciliation appends at most one more.
Paths == [dir : AllDirs, name : Names2]

\* Paths of the files present before the run.
InitPaths == {p \in Paths : p.name \in (IF p.dir = "." THEN Names1 ELSE Names0)}

\* path + '--' + ts_str(mtime)
Stamped(path, mtime) == [path EXCEPT !.name = Append(@, ts_str(mtime))]

Exists(tree, path) == tree[path] # NoFile

VARIABLES
    src,          \* src[r][p]: the file at path p of source root r, or NoFile
    srcDirs,      \* srcDirs[r]: the directories of source root r ({} = no such root)
    dst,          \* dst[p]: the file at path p of the destination, or NoFile
    dstDirs,      \* the directories of the destination tree
    dest_hashes,  \* path -> list of digests (the module-level dict)
    pc,           \* "validate", "walk", "done", "exit", "keyerror"
    status,       \* process exit status
    srcIdx,       \* index of the source root being processed
    stack,        \* frames of recurse_dir, innermost last
    last,         \* the last step taken (observation only)
    run,          \* 1 for the first run of the program, 2 for a re-run
    dst0,         \* the files under consideration at the start of the run
    src0,
    dstDirs0,
    dst1,         \* the destination files the run before this one left
    made,         \* preserved copies made by the older-but-different branch
    occupied      \* occupied[p]: the contents path p has held since it was tracked

vars == <<src, srcDirs, dst, dstDirs, dest_hashes, pc, status, srcIdx, stack,
          last, run, dst0, src0, dstDirs0, dst1, made, occupied>>

fsvars == <<src, srcDirs, dst, dstDirs>>
histvars == <<run, dst0, src0, dstDirs0, dst1>>

NoStep == [branch |-> "none", root |-> 0, path |-> [dir |-> ".", name |-> << >>],
           s |-> NoFile, d |-> NoFile]

Step(branch, r, p) == [branch |-> branch, root |-> r, path |-> p,
                       s |-> src[r][p], d |-> dst[p]]

\* ------------------------------------------------------------------- Init
SrcSlots == Roots \X InitPaths

InitSrc(slots, a) ==
    [r \in Roots |-> [p \in Paths |-> IF <<r, p>> \in slots THEN a[<<r, p>>] ELSE NoFile]]

InitDst(slots, a) ==
    [p \in Paths |-> IF p \in slots THEN a[p] ELSE NoFile]

DirsOf(tree) == {p.dir : p \in {q \in Paths : Exists(tree, q)}}

\* The directories of the trees, given their files: a source root is a
\* directory holding its files, or (when it holds none) possibly no
\* directory at all; so is the destination.
InitDirs ==
    /\ \E missing \in SUBSET {r \in Roots : DirsOf(src[r]) = {}} :
         srcDirs = [r \in Roots |-> IF r \in missing THEN {} ELSE {"."} \cup DirsOf(src[r])]
    /\ \E there \in BOOLEAN :
         /\ ~there => DirsOf(dst) = {}
         /\ dstDirs = IF there THEN {"."} \cup DirsOf(dst) ELSE {}

\* The start of the process: line 23 and the first lines of main.
InitProcess ==
    /\ dest_hashes = [p \in {} |-> << >>]
    /\ pc = "validate"
    /\ status = 0
    /\ srcIdx = 1
    /\ stack = << >>
    /\ last = NoStep
    /\ run = 1
    /\ dst0 = dst
    /\ src0 = src
    /\ dstDirs0 = dstDirs
    /\ dst1 = dst
    /\ made = << >>
    /\ occupied = [p \in {} |-> {}]

Init ==
    /\ \E slots \in {s \in SUBSET SrcSlots : Cardinality(s) <= MaxSrcFiles} :
         \E a \in [slots -> File] : src = InitSrc(slots, a)
    /\ \E slots \in {s \in SUBSET InitPaths : Cardinality(s) <= MaxDstFiles} :
         \E a \in [slots -> File] : dst = InitDst(slots, a)
    /\ InitDirs
    /\ InitProcess

\* Trees that hold one relative path: every source root and the destination
\* has the file f of one directory, or no file.
InitOnePath ==
    /\ \E where \in AllDirs :
         LET f == [dir |-> where, name |-> << >>] IN
         /\ \E a \in [Roots -> File \cup {NoFile}] :
              src = [r \in Roots |-> [p \in Paths |-> IF p = f THEN a[r] ELSE NoFile]]
         /\ \E d \in File \cup {NoFile} :
              dst = [p \in Paths |-> IF p = f THEN d ELSE NoFile]
    /\ InitDirs
    /\ InitProcess

\* Trees in which names clash: every source root holds the file f, a file
\* that carries the name of a preserved copy of f (f--<stamp of its own
\* modification time>), both or neither, and the destination holds f or
\* nothing.  A root without files holds an empty sub-directory.
InitClash ==
    /\ \E a \in [Roots -> File \cup {NoFile}] :
         \E b \in [Roots -> File \cup {NoFile}] :
           src = [r \in Roots |-> [p \in Paths |->
                    IF p.dir = "." /\ p.name = << >> THEN a[r]
                    ELSE IF p.dir = "." /\ p.name = <<ts_str(b[r].mtime)>> THEN b[r]
                    ELSE NoFile]]
    /\ \E d \in File \cup {NoFile} :
         dst = [p \in Paths |-> IF p.dir = "." /\ p.name = << >> THEN d ELSE NoFile]
    /\ srcDirs = [r \in Roots |-> IF DirsOf(src[r]) = {} THEN AllDirs ELSE {"."}]
    /\ dstDirs = {"."}
    /\ InitProcess

\* ------------------------------------------------------------ the ledger
Range(seq) == {seq[i] : i \in DOMAIN seq}

Tracked(h, path) == path \in DOMAIN h

\* An assure_dest_hash that starts the entry afresh on every call.
assure_dest_hash_fresh(h, tree, path) ==
    [q \in DOMAIN h \cup {path} |->
        IF q = path THEN <<md5(tree[path].content)>> ELSE h[q]]

\* An assure_dest_hash that computes the digest and leaves the dict alone.
assure_dest_hash_untracked(h, tree, path) == h

\* assure_dest_hash(path): the ledger afterwards.  The value it returns is
\* md5 of the file at path.
assure_dest_hash(h, tree, path) ==
    LET h1 == IF Tracked(h, path) THEN h ELSE h @@ (path :> << >>)
        current_hash == md5(tree[path].content)
    IN IF current_hash \notin Range(h1[path])
       THEN [h1 EXCEPT ![path] = Append(@, current_hash)]
       ELSE h1

\* A ledger that forgets what it is told.
ledger_append_dropped(h, path, digest) == h

\* dest_hashes[path].append(digest)
ledger_append(h, path, digest) == [h EXCEPT ![path] = Append(@, digest)]

\* ------------------------------------------------- file system primitives
\* A copy that leaves a file already at the target alone.
copy_no_clobber(tree, file, to) ==
    IF tree[to] # NoFile THEN tree ELSE [tree EXCEPT ![to] = file]

\* shutil.copy: the content is copied and the copy is as new as can be.
copy_without_stat(tree, file, to) == [tree EXCEPT ![to] = [file EXCEPT !.mtime = MaxTime]]

\* shutil.copy2(file, to): content and modification time are copied, and a
\* file already at the target is overwritten.
copy2(tree, file, to) == [tree EXCEPT ![to] = file]

\* A rename that gives way to a file already at the target.
move_no_clobber(tree, from, to) ==
    IF tree[to] # NoFile
    THEN [tree EXCEPT ![from] = NoFile]
    ELSE [tree EXCEPT ![to] = tree[from], ![from] = NoFile]

\* shutil.move(from, to) of a file within one file system: os.rename, which
\* replaces a file already at the target.
move(tree, from, to) == [tree EXCEPT ![to] = tree[from], ![from] = NoFile]

\* os.remove in the place of os.utime: an identical source file is deleted.
remove_identical(file, mtime) == NoFile

\* os.utime(file, (atime, mtime))
utime(file, mtime) == [file EXCEPT !.mtime = mtime]

\* ----------------------------------------------------------- recurse_dir
\* Entry of recurse_dir(source_dir, sub_dir): os.listdir(source).
Frame(r, sub_dir) ==
    [sub_dir |-> sub_dir,
     files |-> {p.name : p \in {q \in Paths : q.dir = sub_dir /\ Exists(src[r], q)}},
     dirs |-> IF sub_dir = "." THEN srcDirs[r] \ {"."} ELSE {}]

\* if not os.path.isdir(dest): os.mkdir(dest)
mkdir(dirs, dest) == dirs \cup {dest}

Top == stack[Len(stack)]

Walking == pc = "walk" /\ stack # << >>

\* The loop variable f taken from the listing, a file.
Taken(n) == [stack EXCEPT ![Len(stack)].files = @ \ {n}]

CurPath(n) == [dir |-> Top.sub_dir, name |-> n]

\* ------------------------------------------------------------------- main
\* A sanity check that looks at the first source root only.
Validate_first_only ==
    /\ pc = "validate"
    /\ IF "." \notin srcDirs[1]
       THEN pc' = "exit" /\ status' = 255
       ELSE pc' = "walk" /\ status' = status
    /\ last' = [NoStep EXCEPT !.branch = "validate"]
    /\ UNCHANGED <<fsvars, dest_hashes, srcIdx, stack, histvars, made, occupied>>

\* The sanity check of the arguments.
Validate ==
    /\ pc = "validate"
    /\ IF \E r \in Roots : "." \notin srcDirs[r]
       THEN pc' = "exit" /\ status' = 255
       ELSE pc' = "walk" /\ status' = status
    /\ last' = [NoStep EXCEPT !.branch = "validate"]
    /\ UNCHANGED <<fsvars, dest_hashes, srcIdx, stack, histvars, made, occupied>>

\* for src in args.source: recurse_dir(src, None)
StartRoot ==
    /\ pc = "walk" /\ stack = << >> /\ srcIdx <= NumRoots
    /\ dstDirs' = mkdir(dstDirs, ".")
    /\ stack' = <<Frame(srcIdx, ".")>>
    /\ last' = [NoStep EXCEPT !.branch = "start", !.root = srcIdx]
    /\ UNCHANGED <<src, srcDirs, dst, dest_hashes, pc, status, srcIdx, histvars, made, occupied>>

\* f is a directory: recurse down into it.
Descend ==
    /\ Walking
    /\ \E d \in Top.dirs :
         /\ dstDirs' = mkdir(dstDirs, d)
         /\ stack' = Append([stack EXCEPT ![Len(stack)].dirs = @ \ {d}], Frame(srcIdx, d))
         /\ last' = [NoStep EXCEPT !.branch = "descend", !.root = srcIdx]
    /\ UNCHANGED <<src, srcDirs, dst, dest_hashes, pc, status, srcIdx, histvars, made, occupied>>

\* The contents every tracked path has held since it became tracked, given
\* the ledger and the destination files after a step.
Occupants(occ, h, tree) ==
    [p \in DOMAIN h |-> (IF p \in DOMAIN occ THEN occ[p] ELSE {})
                        \cup ({tree[p].content} \ {NoFile.content})]

\* The file does not exist in the destination: copy it.
CopyAbsent ==
    /\ Walking
    /\ \E n \in Top.files :
         LET p == CurPath(n) IN
         /\ ~Exists(dst, p)
         /\ dst' = copy2(dst, src[srcIdx][p], p)
         /\ dest_hashes' = assure_dest_hash(dest_hashes, dst', p)
         /\ occupied' = Occupants(occupied, dest_hashes', dst')
         /\ stack' = Taken(n)
         /\ last' = Step("absent", srcIdx, p)
    /\ UNCHANGED <<src, srcDirs, dstDirs, pc, status, srcIdx, histvars, made>>

\* Source is newer and has the content of the destination file.
NewerIdentical ==
    /\ Walking
    /\ \E n \in Top.files :
         LET p == CurPath(n)
             s_mod == src[srcIdx][p].mtime
             d_mod == dst[p].mtime
             s_hash == md5(src[srcIdx][p].content)
             d_hash == md5(dst[p].content)
         IN
         /\ Exists(dst, p)
         /\ s_mod > d_mod
         /\ s_hash = d_hash
         /\ src' = [src EXCEPT ![srcIdx][p] = utime(@, s_mod)]
         /\ dest_hashes' = assure_dest_hash(dest_hashes, dst, p)
         /\ occupied' = Occupants(occupied, dest_hashes', dst)
         /\ stack' = Taken(n)
         /\ last' = Step("newer_identical", srcIdx, p)
    /\ UNCHANGED <<srcDirs, dst, dstDirs, pc, status, srcIdx, histvars, made>>

\* Source is newer and different: save off the dest file and copy in the
\* newer source file.  dest_hashes[...] of a path that is not a key of the
\* dict raises KeyError, which ends the process with status 1.
NewerDifferent ==
    /\ Walking
    /\ \E n \in Top.files :
         LET p == CurPath(n)
             s_mod == src[srcIdx][p].mtime
             d_mod == dst[p].mtime
             s_hash == md5(src[srcIdx][p].content)
             d_hash == md5(dst[p].content)
             h == assure_dest_hash(dest_hashes, dst, p)
         IN
         /\ Exists(dst, p)
         /\ s_mod > d_mod
         /\ s_hash # d_hash
         /\ dst' = copy2(move(dst, p, Stamped(p, d_mod)), src[srcIdx][p], p)
         /\ occupied' = Occupants(Occupants(occupied, h, dst), h, dst')
         /\ IF Tracked(h, p)
            THEN /\ dest_hashes' = ledger_append(h, p, s_hash)
                 /\ stack' = Taken(n)
                 /\ UNCHANGED <<pc, status>>
            ELSE /\ dest_hashes' = h
                 /\ stack' = << >>
                 /\ pc' = "keyerror"
                 /\ status' = 1
         /\ last' = Step("newer_different", srcIdx, p)
    /\ UNCHANGED <<src, srcDirs, dstDirs, srcIdx, histvars, made>>

\* Equal modification times taken for an older source: a preserved copy.
SameTime_preserves ==
    /\ Walking
    /\ \E n \in Top.files :
         LET p == CurPath(n)
             s_mod == src[srcIdx][p].mtime
             d_mod == dst[p].mtime
         IN
         /\ Exists(dst, p)
         /\ ~(s_mod > d_mod)
         /\ ~(s_mod # d_mod)
         /\ dst' = copy2(dst, src[srcIdx][p], Stamped(p, s_mod))
         /\ dest_hashes' = assure_dest_hash(dest_hashes, dst, p)
         /\ occupied' = Occupants(occupied, dest_hashes', dst')
         /\ stack' = Taken(n)
         /\ last' = Step("same_time", srcIdx, p)
    /\ UNCHANGED <<src, srcDirs, dstDirs, pc, status, srcIdx, histvars, made>>

\* Equal modification times: nothing is done.
SameTime ==
    /\ Walking
    /\ \E n \in Top.files :
         LET p == CurPath(n)
             s_mod == src[srcIdx][p].mtime
             d_mod == dst[p].mtime
         IN
         /\ Exists(dst, p)
         /\ ~(s_mod > d_mod)
         /\ ~(s_mod # d_mod)
         /\ dest_hashes' = assure_dest_hash(dest_hashes, dst, p)
         /\ occupied' = Occupants(occupied, dest_hashes', dst)
         /\ stack' = Taken(n)
         /\ last' = Step("same_time", srcIdx, p)
    /\ UNCHANGED <<fsvars, pc, status, srcIdx, histvars, made>>

\* The destination is newer and the ledger has the digest of the source:
\* continue.  The membership test itself raises KeyError for a path that is
\* not a key of the dict.
OlderKnown ==
    /\ Walking
    /\ \E n \in Top.files :
         LET p == CurPath(n)
             s_mod == src[srcIdx][p].mtime
             d_mod == dst[p].mtime
             s_hash == md5(src[srcIdx][p].content)
             h == assure_dest_hash(dest_hashes, dst, p)
         IN
         /\ Exists(dst, p)
         /\ ~(s_mod > d_mod)
         /\ s_mod # d_mod
         /\ Tracked(h, p) => s_hash \in Range(h[p])
         /\ dest_hashes' = h
         /\ occupied' = Occupants(occupied, h, dst)
         /\ IF Tracked(h, p)
            THEN /\ stack' = Taken(n)
                 /\ UNCHANGED <<pc, status>>
            ELSE /\ stack' = << >>
                 /\ pc' = "keyerror"
                 /\ status' = 1
         /\ last' = Step("older_known", srcIdx, p)
    /\ UNCHANGED <<fsvars, srcIdx, histvars, made>>

\* The destination is newer: copy the source, but append a timestamp to the
\* name.
OlderDifferent ==
    /\ Walking
    /\ \E n \in Top.files :
         LET p == CurPath(n)
             s_mod == src[srcIdx][p].mtime
             d_mod == dst[p].mtime
             s_hash == md5(src[srcIdx][p].content)
             h == assure_dest_hash(dest_hashes, dst, p)
         IN
         /\ Exists(dst, p)
         /\ ~(s_mod > d_mod)
         /\ s_mod # d_mod
         /\ Tracked(h, p)
         /\ s_hash \notin Range(h[p])
         /\ dst' = copy2(dst, src[srcIdx][p], Stamped(p, s_mod))
         /\ dest_hashes' = ledger_append(h, p, s_hash)
         /\ occupied' = Occupants(occupied, dest_hashes', dst')
         /\ stack' = Taken(n)
         /\ last' = Step("older_different", srcIdx, p)
         /\ made' = Append(made, <<p, src[srcIdx][p].content>>)
    /\ UNCHANGED <<src, srcDirs, dstDirs, pc, status, srcIdx, histvars>>

\* The listing is exhausted: recurse_dir returns, and at the outermost
\* level main goes on to the next source root.
Return ==
    /\ Walking
    /\ Top.files = {} /\ Top.dirs = {}
    /\ stack' = SubSeq(stack, 1, Len(stack) - 1)
    /\ srcIdx' = IF Len(stack) = 1 THEN srcIdx + 1 ELSE srcIdx
    /\ last' = [NoStep EXCEPT !.branch = "return", !.root = srcIdx]
    /\ UNCHANGED <<fsvars, dest_hashes, pc, status, histvars, made, occupied>>

\* print("Run complete")
Finish ==
    /\ pc = "walk" /\ stack = << >> /\ srcIdx > NumRoots
    /\ pc' = "done"
    /\ last' = [NoStep EXCEPT !.branch = "finish"]
    /\ UNCHANGED <<fsvars, dest_hashes, status, srcIdx, stack, histvars, made, occupied>>

Next ==
    \/ Validate
    \/ StartRoot
    \/ Descend
    \/ CopyAbsent
    \/ NewerIdentical
    \/ NewerDifferent
    \/ SameTime
    \/ OlderKnown
    \/ OlderDifferent
    \/ Return
    \/ Finish

Spec == Init /\ [][Next]_vars

\* The same program on trees that hold one relative path.
SpecOnePath == InitOnePath /\ [][Next]_vars

\* The same program on trees in which names clash.
SpecClash == InitClash /\ [][Next]_vars

\* The program is started again on the trees the first run left: a new
\* process, so an empty dest_hashes.
Rerun ==
    /\ pc = "done" /\ run = 1
    /\ run' = 2
    /\ dest_hashes' = [p \in {} |-> << >>]
    /\ pc' = "validate"
    /\ status' = 0
    /\ srcIdx' = 1
    /\ stack' = << >>
    /\ last' = NoStep
    /\ dst0' = dst
    /\ src0' = src
    /\ dstDirs0' = dstDirs
    /\ dst1' = dst
    /\ made' = << >>
    /\ occupied' = [p \in {} |-> {}]
    /\ UNCHANGED fsvars

NextRerun ==
    \/ Next
    \/ Rerun

\* Two runs in a row, on trees that hold one relative path.
SpecRerun == InitOnePath /\ [][NextRerun]_vars

\* The program is run once more on the trees as they were before the first
\* run: the same command line and the same files, and a listing order of
\* its own.
Replay ==
    /\ pc = "done" /\ run = 1
    /\ run' = 2
    /\ dst1' = dst
    /\ dst' = dst0
    /\ src' = src0
    /\ dstDirs' = dstDirs0
    /\ dest_hashes' = [p \in {} |-> << >>]
    /\ pc' = "validate"
    /\ status' = 0
    /\ srcIdx' = 1
    /\ stack' = << >>
    /\ last' = NoStep
    /\ made' = << >>
    /\ occupied' = [p \in {} |-> {}]
    /\ UNCHANGED <<srcDirs, dst0, src0, dstDirs0>>

NextReplay ==
    \/ Next
    \/ Replay

\* Two runs on the same trees.
SpecReplay == Init /\ [][NextReplay]_vars

\* ================================================================ claims
FileBranches == {"absent", "newer_identical", "newer_different", "same_time",
                 "older_known", "older_different"}

IsPrefix(a, b) == Len(a) <= Len(b) /\ SubSeq(b, 1, Len(a)) = a

\* D itself and its suffixed names D--<ts>.
Family(D) ==
    {q \in Paths : q.dir = D.dir /\ IsPrefix(D.name, q.name)
                     /\ Len(q.name) <= Len(D.name) + 1}

ContentsUnder(tree, D) == {tree[q].content : q \in Family(D)} \ {NoFile.content}

\* The versions of relative path p: the destination file and the file of
\* every source root, as of the start of the run.
Versions(p) ==
    (IF Exists(dst0, p) THEN {dst0[p]} ELSE {})
      \cup {src0[r][p] : r \in {x \in Roots : Exists(src0[x], p)}}

Newest(V) == {v \in V : \A w \in V : w.mtime <= v.mtime}

BadRoot == \E r \in Roots : "." \notin srcDirs[r]

\* No two versions of a path share a modification time.
NoTie ==
    \A p \in InitPaths : \A v \in Versions(p) : \A w \in Versions(p) :
        v.mtime = w.mtime => v = w

\* C1: when the run is complete, the content of every source file is in the
\* destination at the corresponding path D or at a suffixed name D--<ts>.
\* Stated for the runs in which the versions of each path have distinct
\* modification times, so that the equal-timestamp branch, which copies
\* nothing, is not what loses the content.
C1_ContentPreserved ==
    (pc = "done" /\ NoTie) =>
        \A r \in Roots : \A p \in InitPaths :
            Exists(src0[r], p) => src0[r][p].content \in ContentsUnder(dst, p)

\* C2: a second complete run over the same source roots, started with an
\* empty ledger, leaves every destination and source file as the first run
\* left it: no new file, no rename, no change of content or of mtime.
C2_RerunChangesNothing ==
    (run = 2 /\ pc = "done") =>
        (dst = dst0 /\ src = src0 /\ dstDirs = dstDirs0)

\* C3: when the run is complete, the unsuffixed name D of every relative
\* path holds the content of a version of that path with the greatest
\* modification time (so that an older version with another content is not
\* at D).
C3_NewestGetsName ==
    pc = "done" =>
        \A p \in InitPaths :
            Versions(p) # {} =>
                dst[p].content \in {v.content : v \in Newest(Versions(p))}

\* C4: reconciling S, newer than D and of the same content, leaves the
\* destination as it is and sets the modification time of S to that of D.
C4_TimestampFixUp ==
    [][LET r == last'.root
           p == last'.path
       IN (/\ last'.branch \in FileBranches
           /\ Exists(dst, p)
           /\ src[r][p].mtime > dst[p].mtime
           /\ src[r][p].content = dst[p].content)
          => /\ dst' = dst
             /\ dstDirs' = dstDirs
             /\ src'[r][p].mtime = dst[p].mtime
             /\ src'[r][p].content = src[r][p].content]_vars

\* C5: reconciling S (mtime t1, content B) against D (mtime t0 < t1, content
\* A # B) leaves B with mtime t1 at D and the old destination file, content
\* A and mtime t0, at D--<formatted t0>; nothing else changes.
C5_NewerWinsNaming ==
    [][LET r == last'.root
           p == last'.path
           saved == Stamped(p, dst[p].mtime)
       IN (/\ last'.branch \in FileBranches
           /\ Exists(dst, p)
           /\ src[r][p].mtime > dst[p].mtime
           /\ src[r][p].content # dst[p].content)
          => /\ dst'[p] = src[r][p]
             /\ dst'[saved] = dst[p]
             /\ \A q \in Paths \ {p, saved} : dst'[q] = dst[q]
             /\ src' = src]_vars

C5_Witness ==
    /\ last.branch \in FileBranches
    /\ Exists(dst0, last.path)
    /\ last.d # NoFile
    /\ last.s.mtime > last.d.mtime
    /\ last.s.content # last.d.content
    /\ dst[last.path] = last.s
    /\ dst[Stamped(last.path, last.d.mtime)] = last.d

\* C6 as stated: reconciling S (mtime t1, content B) against D (mtime
\* t0 > t1, content A # B) leaves D as it is and a file D--<formatted t1>
\* with content B and mtime t1.
C6_OlderDifferentAlways ==
    [][LET r == last'.root
           p == last'.path
       IN (/\ last'.branch \in FileBranches
           /\ Exists(dst, p)
           /\ src[r][p].mtime < dst[p].mtime
           /\ src[r][p].content # dst[p].content)
          => /\ dst'[p] = dst[p]
             /\ dst'[Stamped(p, src[r][p].mtime)] = src[r][p]]_vars

\* C6 amended: the same, provided the digest of B is not yet in the ledger
\* entry of D.
C6_OlderDifferentUnlessKnown ==
    [][LET r == last'.root
           p == last'.path
       IN (/\ last'.branch \in FileBranches
           /\ Exists(dst, p)
           /\ src[r][p].mtime < dst[p].mtime
           /\ src[r][p].content # dst[p].content
           /\ (Tracked(dest_hashes, p) =>
                 md5(src[r][p].content) \notin Range(dest_hashes[p])))
          => /\ dst'[p] = dst[p]
             /\ dst'[Stamped(p, src[r][p].mtime)] = src[r][p]
             /\ \A q \in Paths \ {Stamped(p, src[r][p].mtime)} : dst'[q] = dst[q]
             /\ src' = src]_vars

C6_Witness ==
    /\ last.branch \in FileBranches
    /\ last.d # NoFile
    /\ last.s.mtime < last.d.mtime
    /\ last.s.content # last.d.content
    /\ dst[last.path] = last.d
    /\ dst[Stamped(last.path, last.s.mtime)] = last.s
    /\ Len(made) = 1

\* C7: within one run no content is saved twice as a preserved copy of one
\* destination path; in particular not when several source roots hold it at
\* that path with distinct modification times older than the destination's.
C7_NoDuplicatePreservation ==
    \A i \in DOMAIN made : \A j \in DOMAIN made : made[i] = made[j] => i = j

C7_Witness ==
    /\ pc = "done"
    /\ \E p \in InitPaths : \E r1 \in Roots : \E r2 \in Roots \ {r1} :
         /\ Exists(dst0, p) /\ Exists(src0[r1], p) /\ Exists(src0[r2], p)
         /\ src0[r1][p].content = src0[r2][p].content
         /\ src0[r1][p].mtime # src0[r2][p].mtime
         /\ src0[r1][p].mtime < dst0[p].mtime
         /\ src0[r2][p].mtime < dst0[p].mtime
         /\ made = << <<p, src0[r1][p].content>> >>

\* C8: no digest occurs twice in the ledger entry of a path.
C8_LedgerIsSet ==
    \A p \in DOMAIN dest_hashes :
        \A i \in DOMAIN dest_hashes[p] : \A j \in DOMAIN dest_hashes[p] :
            dest_hashes[p][i] = dest_hashes[p][j] => i = j

\* C9: with a source root that is not a directory, the run does no merge
\* step: it ends with a non-zero exit status and the destination and the
\* sources are as they were.
C9_ValidationBeforeMutation ==
    BadRoot =>
        /\ pc \in {"validate", "exit"}
        /\ pc = "exit" => status # 0
        /\ dst = dst0 /\ dstDirs = dstDirs0 /\ src = src0
        /\ dest_hashes = [p \in {} |-> << >>]

C9_Witness ==
    /\ pc = "exit"
    /\ status # 0
    /\ \E r1 \in Roots : \E r2 \in Roots :
         /\ r1 < r2
         /\ \E p \in InitPaths : Exists(src[r1], p) /\ ~Exists(dst, p)
         /\ "." \notin srcDirs[r2]

\* C10: no reconciliation of a destination path D removes a content from D
\* and its suffixed names D--<ts>: what was there before the step is there
\* after it.
C10_NoContentDestroyed ==
    [][last'.branch \in FileBranches =>
         ContentsUnder(dst, last'.path) \subseteq ContentsUnder(dst', last'.path)]_vars

\* C11: after every reconciliation step on a destination path D, the ledger
\* entry of D has the digest of the file now at D and the digest of every
\* file that was at D since D became tracked.
C11_LedgerCoversOccupants ==
    last.branch \in FileBranches =>
        /\ Tracked(dest_hashes, last.path)
        /\ md5(dst[last.path].content) \in Range(dest_hashes[last.path])
        /\ \A c \in occupied[last.path] : md5(c) \in Range(dest_hashes[last.path])

\* C12: the walker reads or appends to the ledger entry of a path only after
\* assure_dest_hash has made the path tracked: no lookup raises KeyError, and
\* the path of every reconciliation step is tracked when the step is over.
C12_EnsureBeforeContains ==
    /\ pc # "keyerror"
    /\ last.branch \in FileBranches => Tracked(dest_hashes, last.path)

\* The membership test of the destination-newer branch, made on the first
\* file of the run: the path became tracked in that very step.
C12_Witness ==
    /\ last.branch \in {"older_known", "older_different"}
    /\ last.root = 1
    /\ DOMAIN dest_hashes = {last.path}
    /\ pc = "walk"

\* C13: the newer-and-different branch leaves the digest of the file it
\* renamed away and the digest of the file it copied in the ledger entry of
\* D; an entry never loses a digest; and a source file that is older than D
\* and whose digest is in the entry of D is skipped: the destination files
\* stay as they are and no preserved copy is made.
C13_HistoryRetained ==
    [][LET r == last'.root
           p == last'.path
       IN
       /\ last'.branch = "newer_different" =>
              {md5(dst[p].content), md5(src[r][p].content)} \subseteq Range(dest_hashes'[p])
       /\ \A q \in DOMAIN dest_hashes :
              /\ Tracked(dest_hashes', q)
              /\ Range(dest_hashes[q]) \subseteq Range(dest_hashes'[q])
       /\ (/\ last'.branch \in FileBranches
           /\ Exists(dst, p)
           /\ src[r][p].mtime < dst[p].mtime
           /\ Tracked(dest_hashes, p)
           /\ md5(src[r][p].content) \in Range(dest_hashes[p]))
          => (dst' = dst /\ made' = made /\ last'.branch = "older_known")
      ]_vars

\* A source file is skipped whose content was renamed away from D earlier in
\* the run.
C13_Witness ==
    /\ last.branch = "older_known"
    /\ last.s.content # last.d.content
    /\ made = << >>
    /\ dst0[last.path].content = last.s.content
    /\ \E q \in Family(last.path) \ {last.path} : dst[q].content = last.s.content

\* C14: a step that reconciles a source file S with an existing destination
\* file D of the same modification time changes no file and no directory of
\* the destination tree or of a source tree, whatever the two contents.
C14_EqualTimesChangeNothing ==
    [][LET r == last'.root
           p == last'.path
       IN (/\ last'.branch \in FileBranches
           /\ Exists(dst, p)
           /\ src[r][p].mtime = dst[p].mtime)
          => (dst' = dst /\ dstDirs' = dstDirs /\ src' = src /\ srcDirs' = srcDirs)
      ]_vars

\* Equal modification times and different contents.
C14_Witness ==
    /\ last.branch = "same_time"
    /\ last.s.mtime = last.d.mtime
    /\ last.s.content # last.d.content
    /\ dst[last.path] = last.d

\* C15: a step that reconciles a source file S whose destination path D does
\* not exist leaves at D a file with the content and the modification time
\* of S and the digest of that content in the ledger entry of D; no other
\* destination file and no source file changes.
C15_CopyWhenAbsent ==
    [][LET r == last'.root
           p == last'.path
       IN (last'.branch \in FileBranches /\ ~Exists(dst, p))
          => /\ dst'[p] = src[r][p]
             /\ Exists(dst', p)
             /\ Tracked(dest_hashes', p)
             /\ md5(src[r][p].content) \in Range(dest_hashes'[p])
             /\ \A q \in Paths \ {p} : dst'[q] = dst[q]
             /\ src' = src
      ]_vars

\* A file was copied to a path that did not exist, and its modification time
\* is not the latest there is.
C15_Witness ==
    /\ last.branch = "absent"
    /\ last.d = NoFile
    /\ dst[last.path] = last.s
    /\ last.s.mtime < MaxTime

\* C16: two runs of the program on the same source roots and the same
\* destination tree leave the same destination files, whatever the order in
\* which each of them lists the entries of the source directories.
C16_SiblingOrderNotSignificant ==
    (run = 2 /\ pc = "done") => dst = dst1

\* C17: for every destination path D that a source file is merged into, the
\* modification time of the file at D never decreases from one step to the
\* next, and the only step that changes it is the newer-and-different branch
\* on D, which increases it.
C17_DestinationMtimeMonotonic ==
    [][\A p \in Paths :
         ((\E r \in Roots : Exists(src0[r], p)) /\ Exists(dst, p))
         => /\ Exists(dst', p)
            /\ dst'[p].mtime >= dst[p].mtime
            /\ dst'[p].mtime # dst[p].mtime =>
                   (last'.branch = "newer_different" /\ last'.path = p)
      ]_vars

\* C18: no step creates, deletes or renames a file or a directory under a
\* source root or changes the content of a source file; a source file
\* changes only in the newer-but-identical branch on that file, and then
\* only in its timestamps.
C18_SourcesReadOnly ==
    [][/\ srcDirs' = srcDirs
       /\ \A r \in Roots : \A p \in Paths :
            /\ Exists(src'[r], p) = Exists(src[r], p)
            /\ src'[r][p].content = src[r][p].content
            /\ src'[r][p] # src[r][p] =>
                   (last'.branch = "newer_identical" /\ last'.root = r /\ last'.path = p)
      ]_vars

\* The newer-but-identical branch has acted on a source file, which is still
\* there with its content.
C18_Witness ==
    /\ last.branch = "newer_identical"
    /\ Exists(src[last.root], last.path)
    /\ src[last.root][last.path].content = last.s.content
====
